---- MODULE Spec2Model ----
(***************************************************************************)
(* Model of the real-time messaging gateway of src/server/socket.ts.       *)
(*                                                                         *)
(* Every socket.on(...) handler is an async function: it runs             *)
(* synchronously up to its next `await prisma...`, is suspended while the  *)
(* persistence layer executes the query, and is resumed later with the     *)
(* result or with the error the query threw.  A handler in flight is a     *)
(* record in `handlers`.  A query on rows that change (messages,           *)
(* reactions) is two steps: DbExec (the persistence layer runs it) and     *)
(* the Resume* step (the handler continues up to its next await or its     *)
(* end); a query on rows that never change here (memberships, channels)    *)
(* is evaluated in the Resume* step.  Nothing in the code waits for a      *)
(* handler to end before the next event of the same socket is dispatched.  *)
(***************************************************************************)
EXTENDS Integers, Sequences, FiniteSets, Bags, TLC

\* ------------------------------------------------------------------ bounds
MaxRequests == 3      \* events the clients send to the gateway in one run
MaxStored == 52       \* message rows stored before the gateway starts

\* ------------------------------------------------------- program constants
HistoryLimit == 50    \* take: 50

\* --------------------------------------------------------------- universes
None == "none"
Conns == {"c1", "c2"}
Users == {"u1", "u2"}
Servers == {"s1", "s2"}
Channels == {"chA", "chB"}
Emojis == {"fire"}
\* ids a client may send that name no row
NoSuchServer == "s0"
NoSuchChannel == "ch0"

\* the identity each connection holds a live session of
UserOf == [c \in Conns |-> IF c = "c2" THEN "u2" ELSE "u1"]

\* socket.handshake.auth.token: absent, a token jwt.verify refuses, a verified
\* token with no session row, one whose session has expired, or the token of
\* the live session of the connection's identity
NoToken == ""
TokenOf == [c \in Conns |-> IF c = "c2" THEN "t2" ELSE "t1"]
Credentials(c) == {NoToken, "forged", "stale", "expired", TokenOf[c]}
SessionTokens == {"stale", "expired", "t1", "t2"}
\* session.user.id of the session row of a token
SessionUser(t) == IF t = "t2" THEN "u2" ELSE "u1"

\* the value of a property the object does not have
Undefined == "undefined"
\* the user rows: u2 has anonymous mode enabled, with an alias
IsAnonymous == [u \in Users |-> u = "u2"]
AnonymousId == [u \in Users |-> IF u = "u2" THEN "anon_2" ELSE None]
\* prisma.user.findUnique({ where: { id }, select: { id, username, ... } })
FullUser(u) ==
  [id |-> u, username |-> u, isAnonymous |-> IsAnonymous[u],
   anonymousId |-> AnonymousId[u]]
\* socket.user before the middleware attached one
NoUser == [id |-> None, username |-> None]
\* obj[f]
Field(obj, f) == IF f \in DOMAIN obj THEN obj[f] ELSE Undefined

\* persisted rows the gateway only reads
ServerOf == [ch \in Channels |-> IF ch = "chA" THEN "s1" ELSE "s2"]
Members == {<<"u1", "s1">>, <<"u1", "s2">>, <<"u2", "s1">>}
\* the channels of a server, by ascending position
ChannelsOf(s) == IF s = "s1" THEN <<"chA">> ELSE <<"chB">>

ChannelRoom(ch) == <<"channel", ch>>
ServerRoom(s) == <<"server", s>>
Rooms == {ChannelRoom(ch) : ch \in Channels} \cup {ServerRoom(s) : s \in Servers}

VARIABLES
  status,          \* per connection: "new", "auth" (in the middleware),
                   \* "rejected", "open" (admitted) or "closed"
  token,           \* socket.handshake.auth.token (None before the handshake)
  user,            \* socket.user
  sessions,        \* per token: its session row ("none", "expired", "live",
                   \* or "used" once lastUsed was updated)
  currentServer,   \* socket.currentServer
  currentChannel,  \* socket.currentChannel
  rooms,           \* the adapter's room -> socket ids map
  issued,          \* number of client events dispatched so far
  handlers,        \* the bag of async handlers in flight
  messages,        \* persisted message rows, in commit order
  activity,        \* per channel: number of updatedAt touches
  reactions,       \* persisted reaction rows
  nextReactionId,  \* next reaction row id
  toggles,         \* the reaction mutations the persistence layer ran, in order
  emitted,         \* the events emitted by the last step
  inbox,           \* per connection: the new-message events received, in order
  typingUsers      \* the typingUsers set of the chat client of a further member
                   \* subscribed to chA, in insertion order

auth == <<token, user, sessions>>

vars == <<status, token, user, sessions, currentServer, currentChannel, rooms, issued, handlers, messages,
          activity, reactions, nextReactionId, toggles, emitted, inbox, typingUsers>>

\* ------------------------------------------------------------ small helpers
RECURSIVE Reverse(_)
Reverse(s) == IF s = <<>> THEN <<>> ELSE Append(Reverse(Tail(s)), Head(s))

RECURSIVE SelectIds(_, _)
\* ids of the rows of channel ch, in commit (createdAt) order
SelectIds(ms, ch) ==
  IF ms = <<>> THEN <<>>
  ELSE IF Head(ms).channelId = ch
       THEN <<Head(ms).id>> \o SelectIds(Tail(ms), ch)
       ELSE SelectIds(Tail(ms), ch)

Take(s, n) == IF Len(s) <= n THEN s ELSE SubSeq(s, 1, n)

RECURSIVE IdsOf(_)
\* the ids of the rows rs, ascending
IdsOf(rs) ==
  IF rs = {} THEN <<>>
  ELSE LET last == CHOOSE r \in rs : \A q \in rs : q.id <= r.id
       IN Append(IdsOf(rs \ {last}), last.id)

\* awaits whose query the persistence layer runs in a step of its own
NeedsExec == {"jc_history", "sm_create", "ar_lookup", "ar_delete", "ar_create",
              "ar_list", "auth_user"}

\* a handler of connection c, suspended at await pc; `seen` is the number of
\* reaction mutations that had run when its latest lookup or mutation ran
Handler(c, op, arg, mid, pc) ==
  [op |-> op, conn |-> c, arg |-> arg, pc |-> pc, ready |-> (pc \notin NeedsExec),
   resId |-> 0, resList |-> <<>>, resRows |-> {}, mid |-> mid, seen |-> 0]

\* an emitted event: `from` is the socket whose handler emitted it at await
\* `at` ("" for code that runs before any await), `to` the sockets it reaches
Event(ev, from, at, to, text, mid, chan, list) ==
  [ev |-> ev, from |-> from, at |-> at, to |-> to, text |-> text, mid |-> mid,
   chan |-> chan, list |-> list]

\* socket.user.userId, as the handlers read it
SocketUserId(c) == Field(user[c], "userId")

\* ------------------------------------------------- socket.io emit targets
Open == {c \in Conns : status[c] = "open"}
\* this socket and every connected socket sharing a room with it
ToSocket_Room(c) == ({c} \cup {d \in Conns : \E r \in Rooms : {c, d} \subseteq rooms[r]}) \cap Open
\* socket.emit: to this socket, dropped when its transport is closed
ToSocket(c) == {c} \cap Open
\* io.to(room).emit: every connected socket of the room
ToRoom(r) == rooms[r] \cap Open
\* the room, the emitting socket included
ToRoomExcept_Whole(r, c) == rooms[r] \cap Open
\* socket.to(room).emit: the room except the emitting socket
ToRoomExcept(r, c) == (rooms[r] \cap Open) \ {c}
\* the connected sockets that are in some room
ToAll_InRooms == {c \in Open : \E r \in Rooms : c \in rooms[r]}
\* io.emit: every connected socket
ToAll == Open

\* the error sent with io.emit
ErrorTo_All(c, at, text) == Event("error", c, at, ToAll, text, 0, None, <<>>)

\* socket.emit('error', { message: text })
ErrorTo(c, at, text) == Event("error", c, at, ToSocket(c), text, 0, None, <<>>)

InFlight == BagToSet(handlers)

\* a client event is dispatched to its handler
Dispatch ==
  /\ issued < MaxRequests
  /\ issued' = issued + 1

\* the handler is suspended at its first await
Suspend(c, op, arg, mid, pc) ==
  handlers' = handlers (+) SetToBag({Handler(c, op, arg, mid, pc)})

\* handler h resumes at pc: with the error the query threw (fail) before the
\* persistence layer ran it, or with its result
Resumable(h, op, pc, fail) ==
  /\ h.op = op
  /\ h.pc = pc
  /\ IF fail THEN (pc \notin NeedsExec \/ ~h.ready) ELSE h.ready

\* handler h returns and every other handler of its connection is dropped
Finish_All(h) == handlers' = handlers (-) SetToBag({g \in InFlight : g.conn = h.conn})
\* handler h returns (or its catch block ran)
Finish(h) == handlers' = handlers (-) SetToBag({h})

\* handler h goes on as g
Continue(h, g) == handlers' = (handlers (-) SetToBag({h})) (+) SetToBag({g})

\* handler h is suspended at its next await
Await(h, g, pc) ==
  Continue(h, [g EXCEPT !.pc = pc, !.ready = (pc \notin NeedsExec)])

\* the gateway over the message rows ms and the reaction rows rs, with each
\* connection c that has a channel cur[c] admitted and subscribed to it
InitOver(ms, rs, cur) ==
  /\ status = [c \in Conns |-> IF cur[c] = None THEN "new" ELSE "open"]
  /\ token = [c \in Conns |-> IF cur[c] = None THEN None ELSE TokenOf[c]]
  /\ user = [c \in Conns |-> IF cur[c] = None THEN NoUser ELSE FullUser(UserOf[c])]
  /\ sessions = [t \in SessionTokens |->
                  IF t = "stale" THEN "none"
                  ELSE IF t = "expired" THEN "expired"
                  ELSE IF \E c \in Conns : cur[c] # None /\ TokenOf[c] = t
                       THEN "used" ELSE "live"]
  /\ currentServer = [c \in Conns |-> None]
  /\ currentChannel = cur
  /\ rooms = [r \in Rooms |-> {c \in Conns : cur[c] # None /\ r = ChannelRoom(cur[c])}]
  /\ issued = 0
  /\ handlers = EmptyBag
  /\ messages = ms
  /\ activity = [ch \in Channels |-> 0]
  /\ reactions = rs
  /\ nextReactionId = Cardinality(rs) + 1
  /\ toggles = <<>>
  /\ emitted = {}
  /\ inbox = [c \in Conns |-> <<>>]
  /\ typingUsers = <<>>

\* the gateway over the message rows ms, with no reaction stored
InitWith(ms, cur) == InitOver(ms, {}, cur)

\* the gateway right after construction
Init == InitWith(<<>>, [c \in Conns |-> None])

\* io.on('connection'): the middleware admitted the socket
\* socket.user = fullUser; next(): the connection handler registers the
\* event handlers of the socket
Admit(c, u) ==
  /\ user' = [user EXCEPT ![c] = FullUser(u)]
  /\ status' = [status EXCEPT ![c] = "open"]

\* every refusal reported with the reason of the catch block
ConnectError_Generic(c, at, reason) ==
  Event("connect_error", c, at, {c}, "Authentication failed", 0, None, <<>>)

\* next(new Error(reason)): the handshake of c fails with the reason
ConnectError(c, at, reason) ==
  Event("connect_error", c, at, {c}, reason, 0, None, <<>>)

\* next() called where the error is due
Reject_Admits(c, at, reason) ==
  /\ status' = [status EXCEPT ![c] = "open"]
  /\ emitted' = {}

\* return next(new Error(reason)): the middleware ends, the socket is refused
Reject(c, at, reason) ==
  /\ status' = [status EXCEPT ![c] = "rejected"]
  /\ emitted' = {ConnectError(c, at, reason)}

\* the frame of the middleware steps
AuthFrame ==
  UNCHANGED <<issued, currentServer, currentChannel, rooms, messages, activity,
              reactions, nextReactionId, toggles, inbox,
                 typingUsers>>

\* io.use: a handshake with the credential cred reaches the middleware, which
\* runs to its first pending query (validateSession turns the error of
\* verifyToken into null)
Attempt(c, cred) ==
  /\ status[c] = "new"
  /\ token' = [token EXCEPT ![c] = cred]
  /\ IF cred = NoToken
     THEN Reject(c, "", "Authentication error") /\ UNCHANGED handlers
     ELSE IF cred = "forged"
     THEN Reject(c, "", "Invalid session") /\ UNCHANGED handlers
     ELSE /\ status' = [status EXCEPT ![c] = "auth"]
          /\ Suspend(c, "auth", cred, 0, "auth_session")
          /\ emitted' = {}
  /\ AuthFrame
  /\ UNCHANGED <<user, sessions>>

\* validateSession after prisma.session.findUnique
ResumeAuthSession(h, fail) ==
  /\ Resumable(h, "auth", "auth_session", fail)
  /\ IF fail \/ sessions[h.arg] = "none"
     THEN Reject(h.conn, h.pc, "Invalid session") /\ Finish(h)
     ELSE /\ Await(h, h, IF sessions[h.arg] = "expired" THEN "auth_expire"
                                                       ELSE "auth_touch")
          /\ emitted' = {}
          /\ UNCHANGED status
  /\ AuthFrame
  /\ UNCHANGED auth

\* validateSession after prisma.session.delete of the expired session
ResumeAuthExpire(h, fail) ==
  /\ Resumable(h, "auth", "auth_expire", fail)
  /\ sessions' = IF fail THEN sessions ELSE [sessions EXCEPT ![h.arg] = "none"]
  /\ Reject(h.conn, h.pc, "Invalid session")
  /\ Finish(h)
  /\ AuthFrame
  /\ UNCHANGED <<token, user>>

\* validateSession after prisma.session.update of lastUsed
ResumeAuthTouch(h, fail) ==
  /\ Resumable(h, "auth", "auth_touch", fail)
  /\ IF fail
     THEN /\ Reject(h.conn, h.pc, "Invalid session")
          /\ Finish(h)
          /\ UNCHANGED sessions
     ELSE /\ sessions' = [sessions EXCEPT ![h.arg] = "used"]
          /\ Await(h, h, "auth_user")
          /\ emitted' = {}
          /\ UNCHANGED status
  /\ AuthFrame
  /\ UNCHANGED <<token, user>>

\* the middleware after prisma.user.findUnique
ResumeAuthUser(h, fail) ==
  /\ Resumable(h, "auth", "auth_user", fail)
  /\ IF fail
     THEN Reject(h.conn, h.pc, "Authentication failed") /\ UNCHANGED user
     ELSE IF h.resId = 0
     THEN Reject(h.conn, h.pc, "User not found") /\ UNCHANGED user
     ELSE Admit(h.conn, SessionUser(h.arg)) /\ emitted' = {}
  /\ Finish(h)
  /\ AuthFrame
  /\ UNCHANGED <<token, sessions>>

\* a handshake with the token of the connection's live session, whose
\* middleware ran through to next() (nothing else reads what it writes
\* before then)
Connect(c) ==
  /\ status[c] = "new"
  /\ token' = [token EXCEPT ![c] = TokenOf[c]]
  /\ sessions' = [sessions EXCEPT ![TokenOf[c]] = "used"]
  /\ Admit(c, SessionUser(TokenOf[c]))
  /\ emitted' = {}
  /\ UNCHANGED <<issued, currentServer, currentChannel, rooms, handlers, messages,
                 activity, reactions, nextReactionId, toggles, inbox,
                 typingUsers>>

\* ------------------------------------------------------------- persistence
\* prisma.serverMember.findFirst({ where: { userId, serverId } })
\* (a condition whose value is undefined is no condition)
IsServerMember(u, s) ==
  \E m \in Members : (u = Undefined \/ m[1] = u) /\ m[2] = s

\* prisma.channel.findFirst({ where: { id, server: { members: { some: { userId } } } } })
HasChannelAccess(u, ch) ==
  /\ ch \in Channels
  /\ \E m \in Members : (u = Undefined \/ m[1] = u) /\ m[2] = ServerOf[ch]

\* the 50 oldest rows, newest first
ListRecentMessages_Oldest(ch) == Reverse(Take(SelectIds(messages, ch), HistoryLimit))

\* prisma.message.findMany({ where: { channelId }, orderBy: { createdAt: 'desc' }, take: 50 })
ListRecentMessages(ch) == Take(Reverse(SelectIds(messages, ch)), HistoryLimit)

\* prisma.reaction.findFirst({ where: { userId, messageId, emoji } })
MatchingReactions(u, m, e) ==
  {r \in reactions :
     (u = Undefined \/ r.userId = u) /\ r.messageId = m /\ r.emoji = e}

\* prisma.reaction.findMany({ where: { messageId } })
ListReactions(m) == {r \in reactions : r.messageId = m}

\* prisma.reaction.create({ data: { userId, messageId, emoji } })
ReactionCreate(rs, id, u, m, e) ==
  rs \cup {[id |-> id, userId |-> u, messageId |-> m, emoji |-> e]}

\* prisma.message.create({ data: { ..., userId, channelId } })
MessageCreate(ms, u, ch) ==
  Append(ms, [id |-> Len(ms) + 1, channelId |-> ch, userId |-> u])

\* the record of a reaction mutation of handler h: the rows before and after
\* it, and whether no other mutation ran since the lookup of h (solo)
Toggled(h, before, after) ==
  [userId |-> SocketUserId(h.conn), messageId |-> h.mid, emoji |-> h.arg,
   solo |-> (h.seen = Len(toggles)), before |-> before, after |-> after]

\* the persistence layer runs the query handler i is waiting for
DbExec(h) ==
  LET Done(r) == Continue(h, [r EXCEPT !.ready = TRUE])
  IN
  /\ ~h.ready
  /\ emitted' = {}
  /\ UNCHANGED <<auth, status, currentServer, currentChannel, rooms, issued, inbox, activity,
               typingUsers>>
  /\ CASE h.pc = "jc_history" ->
            /\ Done([h EXCEPT !.resList = ListRecentMessages(h.arg)])
            /\ UNCHANGED <<messages, reactions, nextReactionId, toggles>>
       [] h.pc = "sm_create" ->
            /\ messages' = MessageCreate(messages, SocketUserId(h.conn), h.arg)
            /\ Done([h EXCEPT !.resId = Len(messages) + 1])
            /\ UNCHANGED <<reactions, nextReactionId, toggles>>
       [] h.pc = "auth_user" ->
            \* the user row of the session, or none when it was deleted since
            /\ \E found \in {0, 1} : Done([h EXCEPT !.resId = found])
            /\ UNCHANGED <<messages, reactions, nextReactionId, toggles>>
       [] h.pc = "ar_lookup" ->
            /\ \/ /\ MatchingReactions(SocketUserId(h.conn), h.mid, h.arg) = {}
                  /\ Done([h EXCEPT !.resId = 0, !.seen = Len(toggles)])
               \/ \E r \in MatchingReactions(SocketUserId(h.conn), h.mid, h.arg) :
                     Done([h EXCEPT !.resId = r.id, !.seen = Len(toggles)])
            /\ UNCHANGED <<messages, reactions, nextReactionId, toggles>>
       [] h.pc = "ar_delete" ->
            \* delete({ where: { id } }) of a row that is still there
            /\ \E r \in reactions : r.id = h.resId
            /\ reactions' = {r \in reactions : r.id # h.resId}
            /\ toggles' = Append(toggles, Toggled(h, reactions, reactions'))
            /\ Done([h EXCEPT !.seen = Len(toggles) + 1])
            /\ UNCHANGED <<messages, nextReactionId>>
       [] h.pc = "ar_create" ->
            /\ reactions' = ReactionCreate(reactions, nextReactionId,
                                           SocketUserId(h.conn), h.mid, h.arg)
            /\ nextReactionId' = nextReactionId + 1
            /\ toggles' = Append(toggles, Toggled(h, reactions, reactions'))
            /\ Done([h EXCEPT !.seen = Len(toggles) + 1])
            /\ UNCHANGED messages
       [] h.pc = "ar_list" ->
            /\ Done([h EXCEPT !.resRows = ListReactions(h.mid)])
            /\ UNCHANGED <<messages, reactions, nextReactionId, toggles>>

\* ------------------------------------------------------------- join-server
JoinServer(c, s) ==
  /\ status[c] = "open"
  /\ Dispatch
  /\ Suspend(c, "join-server", s, 0, "js_member")
  /\ emitted' = {}
  /\ UNCHANGED <<auth, status, currentServer, currentChannel, rooms, messages,
                 activity, reactions, nextReactionId, toggles, inbox,
                 typingUsers>>

ResumeJoinServerMember(h, fail) ==
  LET c == h.conn
  IN
  /\ Resumable(h, "join-server", "js_member", fail)
  /\ IF fail
     THEN /\ emitted' = {ErrorTo(c, h.pc, "Failed to join server")}
          /\ Finish(h)
          /\ UNCHANGED <<currentServer, rooms>>
     ELSE IF ~IsServerMember(SocketUserId(c), h.arg)
     THEN /\ emitted' = {ErrorTo(c, h.pc, "Not a member of this server")}
          /\ Finish(h)
          /\ UNCHANGED <<currentServer, rooms>>
     ELSE /\ currentServer' = [currentServer EXCEPT ![c] = h.arg]
          /\ rooms' = [rooms EXCEPT ![ServerRoom(h.arg)] = @ \cup {c}]
          /\ emitted' = {}
          /\ Await(h, h, "js_channels")
  /\ UNCHANGED <<auth, issued, status, currentChannel, messages, activity, reactions,
                 nextReactionId, toggles, inbox,
                 typingUsers>>

ResumeJoinServerChannels(h, fail) ==
  LET c == h.conn
  IN
  /\ Resumable(h, "join-server", "js_channels", fail)
  /\ emitted' = IF fail
                THEN {ErrorTo(c, h.pc, "Failed to join server")}
                ELSE {Event("server-channels", c, h.pc, ToSocket(c), h.arg, 0,
                            None, <<>>)}
  /\ Finish(h)
  /\ UNCHANGED <<auth, issued, status, currentServer, currentChannel, rooms, messages,
                 activity, reactions, nextReactionId, toggles, inbox,
                 typingUsers>>

\* ------------------------------------------------------------ join-channel
JoinChannel(c, ch) ==
  /\ status[c] = "open"
  /\ Dispatch
  /\ Suspend(c, "join-channel", ch, 0, "jc_access")
  /\ emitted' = {}
  /\ UNCHANGED <<auth, status, currentServer, currentChannel, rooms, messages,
                 activity, reactions, nextReactionId, toggles, inbox,
                 typingUsers>>

\* the leave that empties the room
Leave_Everyone(rs, c, old) ==
  IF old # None THEN [rs EXCEPT ![ChannelRoom(old)] = {}] ELSE rs

\* if (socket.currentChannel) socket.leave(`channel:${socket.currentChannel}`)
Leave(rs, c, old) ==
  IF old # None THEN [rs EXCEPT ![ChannelRoom(old)] = @ \ {c}] ELSE rs

\* the join without the leave of the previous channel
LeaveJoin_NoLeave(rs, c, old, ch) == [rs EXCEPT ![ChannelRoom(ch)] = @ \cup {c}]

\* socket.leave(`channel:${old}`) when old is set, then socket.join(`channel:${ch}`)
LeaveJoin(rs, c, old, ch) ==
  [Leave(rs, c, old) EXCEPT ![ChannelRoom(ch)] = @ \cup {c}]

\* the access check that sets currentChannel and joins no room
ResumeJoinChannelAccess_NoRoom(h, fail) ==
  LET c == h.conn
  IN
  /\ Resumable(h, "join-channel", "jc_access", fail)
  /\ IF fail
     THEN /\ emitted' = {ErrorTo(c, h.pc, "Failed to join channel")}
          /\ Finish(h)
          /\ UNCHANGED <<currentChannel, rooms>>
     ELSE IF ~HasChannelAccess(SocketUserId(c), h.arg)
     THEN /\ emitted' = {ErrorTo(c, h.pc, "Channel not found or access denied")}
          /\ Finish(h)
          /\ UNCHANGED <<currentChannel, rooms>>
     ELSE /\ rooms' = rooms
          /\ currentChannel' = [currentChannel EXCEPT ![c] = h.arg]
          /\ emitted' = {}
          /\ Await(h, h, "jc_history")
  /\ UNCHANGED <<auth, issued, status, currentServer, messages, activity, reactions,
                 nextReactionId, toggles, inbox,
                 typingUsers>>

ResumeJoinChannelAccess(h, fail) ==
  LET c == h.conn
  IN
  /\ Resumable(h, "join-channel", "jc_access", fail)
  /\ IF fail
     THEN /\ emitted' = {ErrorTo(c, h.pc, "Failed to join channel")}
          /\ Finish(h)
          /\ UNCHANGED <<currentChannel, rooms>>
     ELSE IF ~HasChannelAccess(SocketUserId(c), h.arg)
     THEN /\ emitted' = {ErrorTo(c, h.pc, "Channel not found or access denied")}
          /\ Finish(h)
          /\ UNCHANGED <<currentChannel, rooms>>
     ELSE /\ rooms' = LeaveJoin(rooms, c, currentChannel[c], h.arg)
          /\ currentChannel' = [currentChannel EXCEPT ![c] = h.arg]
          /\ emitted' = {}
          /\ Await(h, h, "jc_history")
  /\ UNCHANGED <<auth, issued, status, currentServer, messages, activity, reactions,
                 nextReactionId, toggles, inbox,
                 typingUsers>>

ResumeJoinChannelHistory(h, fail) ==
  LET c == h.conn
  IN
  /\ Resumable(h, "join-channel", "jc_history", fail)
  /\ emitted' = IF fail
                THEN {ErrorTo(c, h.pc, "Failed to join channel")}
                ELSE {Event("channel-messages", c, h.pc, ToSocket(c), "", 0, h.arg,
                            Reverse(h.resList)),
                      Event("user-joined", c, h.pc,
                            ToRoomExcept(ChannelRoom(h.arg), c),
                            SocketUserId(c), 0, h.arg, <<>>)}
  /\ Finish(h)
  /\ UNCHANGED <<auth, issued, status, currentServer, currentChannel, rooms, messages,
                 activity, reactions, nextReactionId, toggles, inbox,
                 typingUsers>>

\* ------------------------------------------------------------ send-message
\* the guard left out
NotInChannel_Never(c) == FALSE

\* the guard of the handler: if (!socket.currentChannel)
NotInChannel(c) == currentChannel[c] = None

SendMessage(c) ==
  /\ status[c] = "open"
  /\ Dispatch
  /\ IF NotInChannel(c)
     THEN /\ emitted' = {ErrorTo(c, "", "Not in a channel")}
          /\ UNCHANGED handlers
     ELSE \* channelId: socket.currentChannel, read when the create is issued
          /\ Suspend(c, "send-message", currentChannel[c], 0, "sm_create")
          /\ emitted' = {}
  /\ UNCHANGED <<auth, status, currentServer, currentChannel, rooms, messages,
                 activity, reactions, nextReactionId, toggles, inbox,
                 typingUsers>>

\* the channel of io.to(`channel:${socket.currentChannel}`) and of the
\* last-activity update, read after the await of the create
BroadcastChannel(h) == currentChannel[h.conn]

\* the connections a new-message of connection from reaches through room ch
\* append it to what they received
Deliver(in, to, mid, ch, from) ==
  [c \in Conns |->
     IF c \in to THEN Append(in[c], [mid |-> mid, chan |-> ch, from |-> from])
                 ELSE in[c]]

\* the broadcast made without waiting for the outcome of the create
CreateSettled_Optimistic(h, fail) ==
  {Event("new-message", h.conn, h.pc, ToRoom(ChannelRoom(BroadcastChannel(h))),
         "", h.resId, BroadcastChannel(h), <<>>)}

\* the events of the handler once its create has settled
CreateSettled(h, fail) ==
  IF fail
  THEN {ErrorTo(h.conn, h.pc, "Failed to send message")}
  ELSE {Event("new-message", h.conn, h.pc, ToRoom(ChannelRoom(BroadcastChannel(h))),
              "", h.resId, BroadcastChannel(h), <<>>)}

ResumeSendCreate(h, fail) ==
  /\ Resumable(h, "send-message", "sm_create", fail)
  /\ emitted' = CreateSettled(h, fail)
  /\ IF fail
     THEN /\ Finish(h)
          /\ UNCHANGED inbox
     ELSE /\ inbox' = Deliver(inbox, ToRoom(ChannelRoom(BroadcastChannel(h))), h.resId,
                           BroadcastChannel(h), h.conn)
          /\ Await(h, [h EXCEPT !.arg = BroadcastChannel(h)], "sm_touch")
  /\ UNCHANGED typingUsers
  /\ UNCHANGED <<auth, issued, status, currentServer, currentChannel, rooms, messages,
                 activity, reactions, nextReactionId, toggles>>

\* prisma.channel.update({ where: { id }, data: { updatedAt } }) settles; no
\* handler reads updatedAt, so the update is applied when the await resumes
ResumeSendTouch(h, fail) ==
  /\ Resumable(h, "send-message", "sm_touch", fail)
  /\ IF fail
     THEN /\ emitted' = {ErrorTo(h.conn, h.pc, "Failed to send message")}
          /\ UNCHANGED activity
     ELSE /\ emitted' = {}
          /\ activity' = [activity EXCEPT ![h.arg] = @ + 1]
  /\ Finish(h)
  /\ UNCHANGED <<auth, issued, status, currentServer, currentChannel, rooms, messages,
                 reactions, nextReactionId, toggles, inbox,
                 typingUsers>>

\* ------------------------------------------------------- typing indicators
\* the indicator sent with io.to(room): the sender gets it too
Typing_Echo(c, ev) ==
  /\ status[c] = "open"
  /\ Dispatch
  /\ emitted' = IF currentChannel[c] # None
                THEN {Event(ev, c, "", ToRoom(ChannelRoom(currentChannel[c])),
                            SocketUserId(c), 0, currentChannel[c], <<>>)}
                ELSE {}
  /\ UNCHANGED <<auth, status, currentServer, currentChannel, rooms, handlers,
                 messages, activity, reactions, nextReactionId, toggles, inbox,
                 typingUsers>>

\* socket.on('typing-start' / 'typing-stop'): ev to the others of the room of
\* socket.currentChannel, nothing when it is not set
Typing(c, ev) ==
  /\ status[c] = "open"
  /\ Dispatch
  /\ emitted' = IF currentChannel[c] # None
                THEN {Event(ev, c, "", ToRoomExcept(ChannelRoom(currentChannel[c]), c),
                            SocketUserId(c), 0, currentChannel[c], <<>>)}
                ELSE {}
  /\ UNCHANGED <<auth, status, currentServer, currentChannel, rooms, handlers,
                 messages, activity, reactions, nextReactionId, toggles, inbox,
                 typingUsers>>

TypingStart(c) == Typing(c, "user-typing")

TypingStop(c) == Typing(c, "user-stop-typing")

\* ------------------------------------------------------------ add-reaction
MessageIds == {messages[k].id : k \in 1..Len(messages)}

AddReaction(c, m, e) ==
  /\ status[c] = "open"
  /\ Dispatch
  /\ Suspend(c, "add-reaction", e, m, "ar_lookup")
  /\ emitted' = {}
  /\ UNCHANGED <<auth, status, currentServer, currentChannel, rooms, messages,
                 activity, reactions, nextReactionId, toggles, inbox,
                 typingUsers>>

\* if (existingReaction) delete it, else create one
MutationFor(existing) == IF existing # 0 THEN "ar_delete" ELSE "ar_create"

ResumeReactionLookup(h, fail) ==
  /\ Resumable(h, "add-reaction", "ar_lookup", fail)
  /\ IF fail
     THEN /\ emitted' = {ErrorTo(h.conn, h.pc, "Failed to add reaction")}
          /\ Finish(h)
     ELSE /\ emitted' = {}
          /\ Await(h, h, MutationFor(h.resId))
  /\ UNCHANGED <<auth, issued, status, currentServer, currentChannel, rooms, messages,
                 activity, reactions, nextReactionId, toggles, inbox,
                 typingUsers>>

ResumeReactionMutation(h, fail) ==
  /\ \/ Resumable(h, "add-reaction", "ar_delete", fail)
     \/ Resumable(h, "add-reaction", "ar_create", fail)
  /\ IF fail
     THEN /\ emitted' = {ErrorTo(h.conn, h.pc, "Failed to add reaction")}
          /\ Finish(h)
     ELSE /\ emitted' = {}
          /\ Await(h, h, "ar_list")
  /\ UNCHANGED <<auth, issued, status, currentServer, currentChannel, rooms, messages,
                 activity, reactions, nextReactionId, toggles, inbox,
                 typingUsers>>

\* the list query throws and the update is sent all the same
ResumeReactionList_Both(h, fail) ==
  /\ Resumable(h, "add-reaction", "ar_list", fail)
  /\ emitted' = IF fail
                THEN {ErrorTo(h.conn, h.pc, "Failed to add reaction"),
                      Event("message-reactions-updated", h.conn, h.pc, ToAll, "",
                            h.mid, None, IdsOf(h.resRows))}
                ELSE {Event("message-reactions-updated", h.conn, h.pc, ToAll, "",
                            h.mid, None, IdsOf(h.resRows))}
  /\ Finish(h)
  /\ UNCHANGED <<auth, issued, status, currentServer, currentChannel, rooms, messages,
                 activity, reactions, nextReactionId, toggles, inbox,
                 typingUsers>>

ResumeReactionList(h, fail) ==
  /\ Resumable(h, "add-reaction", "ar_list", fail)
  /\ emitted' = IF fail
                THEN {ErrorTo(h.conn, h.pc, "Failed to add reaction")}
                ELSE {Event("message-reactions-updated", h.conn, h.pc, ToAll, "",
                            h.mid, None, IdsOf(h.resRows))}
  /\ Finish(h)
  /\ UNCHANGED <<auth, issued, status, currentServer, currentChannel, rooms, messages,
                 activity, reactions, nextReactionId, toggles, inbox,
                 typingUsers>>

\* the user-left notice of connection c: to the room of its currentChannel
\* in rs, the rooms after the adapter took the socket out of all of them
UserLeftNotice(c, rs, open) ==
  IF currentChannel[c] # None
  THEN {Event("user-left", c, "", (rs[ChannelRoom(currentChannel[c])] \cap open) \ {c},
              SocketUserId(c), 0, currentChannel[c], <<>>)}
  ELSE {}

Disconnect(c) ==
  /\ status[c] = "open"
  /\ status' = [status EXCEPT ![c] = "closed"]
  /\ rooms' = [r \in Rooms |-> rooms[r] \ {c}]
  /\ emitted' = UserLeftNotice(c, rooms', Open \ {c})
  /\ UNCHANGED <<auth, issued, currentServer, currentChannel, handlers, messages, activity,
                 reactions, nextReactionId, toggles, inbox,
                 typingUsers>>

\* ---------------------------------------------------------- specifications
\* channel rooms and messages: join-channel, send-message, disconnect
Next ==
  \/ \E c \in Conns : Connect(c)
  \/ \E c \in Conns, ch \in Channels : JoinChannel(c, ch)
  \/ \E c \in Conns : SendMessage(c)
  \/ \E c \in Conns : Disconnect(c)
  \/ \E h \in InFlight : DbExec(h)
  \/ \E h \in InFlight, fail \in BOOLEAN : ResumeJoinChannelAccess(h, fail)
  \/ \E h \in InFlight, fail \in BOOLEAN : ResumeJoinChannelHistory(h, fail)
  \/ \E h \in InFlight, fail \in BOOLEAN : ResumeSendCreate(h, fail)
  \/ \E h \in InFlight, fail \in BOOLEAN : ResumeSendTouch(h, fail)

Spec == Init /\ [][Next]_vars

\* message order: every connection has joined chA
InitJoined == InitWith(<<>>, [c \in Conns |-> "chA"])

NextOrder ==
  \/ \E c \in Conns, ch \in Channels : JoinChannel(c, ch)
  \/ \E c \in Conns : SendMessage(c)
  \/ \E c \in Conns : Disconnect(c)
  \/ \E h \in InFlight : DbExec(h)
  \/ \E h \in InFlight, fail \in BOOLEAN : ResumeJoinChannelAccess(h, fail)
  \/ \E h \in InFlight, fail \in BOOLEAN : ResumeJoinChannelHistory(h, fail)
  \/ \E h \in InFlight, fail \in BOOLEAN : ResumeSendCreate(h, fail)
  \/ \E h \in InFlight, fail \in BOOLEAN : ResumeSendTouch(h, fail)

SpecOrder == InitJoined /\ [][NextOrder]_vars

\* reactions on a stored message
InitReact == InitWith(MessageCreate(<<>>, "u1", "chA"), [c \in Conns |-> None])

NextReact ==
  \/ \E c \in Conns : Connect(c)
  \/ \E c \in Conns, m \in MessageIds, e \in Emojis : AddReaction(c, m, e)
  \/ \E c \in Conns : Disconnect(c)
  \/ \E h \in InFlight : DbExec(h)
  \/ \E h \in InFlight, fail \in BOOLEAN : ResumeReactionLookup(h, fail)
  \/ \E h \in InFlight, fail \in BOOLEAN : ResumeReactionMutation(h, fail)
  \/ \E h \in InFlight, fail \in BOOLEAN : ResumeReactionList(h, fail)

SpecReact == InitReact /\ [][NextReact]_vars

\* reactions on a stored message that two add-reaction handlers of one
\* identity, both past their lookup before either created its row, left with
\* two rows of one (userId, messageId, emoji)
InitToggle ==
  InitOver(MessageCreate(<<>>, "u1", "chA"),
           ReactionCreate(ReactionCreate({}, 1, Undefined, 1, "fire"), 2, Undefined, 1,
                          "fire"),
           [c \in Conns |-> None])

SpecToggle == InitToggle /\ [][NextReact]_vars

\* messages: send-message of connections that join channels
NextSend ==
  \/ \E c \in Conns : Connect(c)
  \/ \E c \in Conns, ch \in Channels : JoinChannel(c, ch)
  \/ \E c \in Conns : SendMessage(c)
  \/ \E h \in InFlight : DbExec(h)
  \/ \E h \in InFlight, fail \in BOOLEAN : ResumeJoinChannelAccess(h, fail)
  \/ \E h \in InFlight, fail \in BOOLEAN : ResumeJoinChannelHistory(h, fail)
  \/ \E h \in InFlight, fail \in BOOLEAN : ResumeSendCreate(h, fail)
  \/ \E h \in InFlight, fail \in BOOLEAN : ResumeSendTouch(h, fail)

SpecSend == Init /\ [][NextSend]_vars

\* joins: join-server and join-channel, also of ids that name no row
NextJoin ==
  \/ \E c \in Conns : Connect(c)
  \/ \E c \in Conns, s \in Servers \cup {NoSuchServer} : JoinServer(c, s)
  \/ \E c \in Conns, ch \in Channels \cup {NoSuchChannel} : JoinChannel(c, ch)
  \/ \E h \in InFlight : DbExec(h)
  \/ \E h \in InFlight, fail \in BOOLEAN : ResumeJoinServerMember(h, fail)
  \/ \E h \in InFlight, fail \in BOOLEAN : ResumeJoinServerChannels(h, fail)
  \/ \E h \in InFlight, fail \in BOOLEAN : ResumeJoinChannelAccess(h, fail)
  \/ \E h \in InFlight, fail \in BOOLEAN : ResumeJoinChannelHistory(h, fail)

SpecJoin == Init /\ [][NextJoin]_vars

\* channel rooms: join-channel and disconnect
NextChannel ==
  \/ \E c \in Conns : Connect(c)
  \/ \E c \in Conns, ch \in Channels : JoinChannel(c, ch)
  \/ \E c \in Conns : Disconnect(c)
  \/ \E h \in InFlight : DbExec(h)
  \/ \E h \in InFlight, fail \in BOOLEAN : ResumeJoinChannelAccess(h, fail)
  \/ \E h \in InFlight, fail \in BOOLEAN : ResumeJoinChannelHistory(h, fail)

SpecChannel == Init /\ [][NextChannel]_vars

\* typing indicators of connections that join channels and disconnect
NextTyping ==
  \/ \E c \in Conns : Connect(c)
  \/ \E c \in Conns, ch \in Channels : JoinChannel(c, ch)
  \/ \E c \in Conns : TypingStart(c)
  \/ \E c \in Conns : TypingStop(c)
  \/ \E c \in Conns : Disconnect(c)
  \/ \E h \in InFlight : DbExec(h)
  \/ \E h \in InFlight, fail \in BOOLEAN : ResumeJoinChannelAccess(h, fail)
  \/ \E h \in InFlight, fail \in BOOLEAN : ResumeJoinChannelHistory(h, fail)

SpecTyping == Init /\ [][NextTyping]_vars

\* n stored message rows: all of chA, or every third one of chB
Stored(n, mixed) ==
  [k \in 1..n |-> [id |-> k,
                   channelId |-> IF mixed /\ k % 3 = 0 THEN "chB" ELSE "chA",
                   userId |-> Undefined]]

\* the gateway starts over a stored history
InitHistory ==
  \E n \in 0..MaxStored, mixed \in BOOLEAN :
    InitWith(Stored(n, mixed), [c \in Conns |-> None])

\* the history of a channel: the join-channel requests of one connection
\* over stored histories
NextHistory ==
  \/ Connect("c1")
  \/ \E ch \in Channels : JoinChannel("c1", ch)
  \/ \E h \in InFlight : DbExec(h)
  \/ \E h \in InFlight, fail \in BOOLEAN : ResumeJoinChannelAccess(h, fail)
  \/ \E h \in InFlight, fail \in BOOLEAN : ResumeJoinChannelHistory(h, fail)

SpecHistory == InitHistory /\ [][NextHistory]_vars

\* re-joins: join-channel and disconnect of connections that are in chA
NextRejoin ==
  \/ \E c \in Conns, ch \in Channels : JoinChannel(c, ch)
  \/ \E c \in Conns : Disconnect(c)
  \/ \E h \in InFlight : DbExec(h)
  \/ \E h \in InFlight, fail \in BOOLEAN : ResumeJoinChannelAccess(h, fail)
  \/ \E h \in InFlight, fail \in BOOLEAN : ResumeJoinChannelHistory(h, fail)

SpecRejoin == InitJoined /\ [][NextRejoin]_vars

\* the handshake: the middleware next to a connection that joins a channel
\* and types
NextAuth ==
  \/ \E c \in Conns : \E cred \in Credentials(c) : Attempt(c, cred)
  \/ \E h \in InFlight, fail \in BOOLEAN : ResumeAuthSession(h, fail)
  \/ \E h \in InFlight, fail \in BOOLEAN : ResumeAuthExpire(h, fail)
  \/ \E h \in InFlight, fail \in BOOLEAN : ResumeAuthTouch(h, fail)
  \/ \E h \in InFlight, fail \in BOOLEAN : ResumeAuthUser(h, fail)
  \/ \E c \in Conns, ch \in Channels : JoinChannel(c, ch)
  \/ \E c \in Conns : TypingStart(c)
  \/ \E c \in Conns : Disconnect(c)
  \/ \E h \in InFlight : DbExec(h)
  \/ \E h \in InFlight, fail \in BOOLEAN : ResumeJoinChannelAccess(h, fail)
  \/ \E h \in InFlight, fail \in BOOLEAN : ResumeJoinChannelHistory(h, fail)

SpecAuth == Init /\ [][NextAuth]_vars

\* server scope and typing: join-server, join-channel, typing, disconnect
NextScope ==
  \/ \E c \in Conns : Connect(c)
  \/ \E c \in Conns, s \in Servers : JoinServer(c, s)
  \/ \E c \in Conns, ch \in Channels : JoinChannel(c, ch)
  \/ \E c \in Conns : TypingStart(c)
  \/ \E c \in Conns : TypingStop(c)
  \/ \E c \in Conns : Disconnect(c)
  \/ \E h \in InFlight : DbExec(h)
  \/ \E h \in InFlight, fail \in BOOLEAN : ResumeJoinServerMember(h, fail)
  \/ \E h \in InFlight, fail \in BOOLEAN : ResumeJoinServerChannels(h, fail)
  \/ \E h \in InFlight, fail \in BOOLEAN : ResumeJoinChannelAccess(h, fail)
  \/ \E h \in InFlight, fail \in BOOLEAN : ResumeJoinChannelHistory(h, fail)

SpecScope == Init /\ [][NextScope]_vars

\* ------------------------------------------------------------------ claims
ChannelRoomsOf(c) == {ch \in Channels : c \in rooms[ChannelRoom(ch)]}

\* the ids of the new-message events connection c received
Received(c) == {inbox[c][k].mid : k \in 1..Len(inbox[c])}

\* handler h returns in this step
Returns(h) == handlers' = handlers (-) SetToBag({h})

\* C1: an admitted connection that has joined a channel is in exactly one
\* channel room, the room of its currentChannel, whatever join-channel
\* requests are in flight.
C1_OneRoom ==
  \A c \in Open :
    /\ currentChannel[c] # None => ChannelRoomsOf(c) = {currentChannel[c]}
    /\ currentChannel[c] = None => ChannelRoomsOf(c) = {}

\* a connection moved from one channel room to the other while a second
\* join-channel of the same connection is still in flight
C1_Witness ==
  \E c \in Open :
    /\ currentChannel[c] = "chB"
    /\ ChannelRoomsOf(c) = {"chB"}
    /\ \E h \in InFlight : h.conn = c /\ h.op = "join-channel" /\ h.arg = "chA"
                            /\ h.pc = "jc_history"
    /\ \E h \in InFlight : h.conn = c /\ h.op = "join-channel" /\ h.arg = "chB"
                            /\ h.pc = "jc_history"

\* C2: a new-message is delivered to exactly the connections subscribed, when
\* the create confirms, to the room of the channel the sender was in when it
\* sent the message (the channel the message row was created in).
C2_ExactRoom ==
  \A e \in emitted :
    e.ev = "new-message" => e.to = ToRoom(ChannelRoom(messages[e.mid].channelId))

\* C3: no two handlers of one connection are suspended on a collaborator call
\* at the same time.
C3_Serialized ==
  \A h \in InFlight :
    /\ CopiesIn(h, handlers) = 1
    /\ \A g \in InFlight : g # h => g.conn # h.conn

\* C4 (rooms): a disconnected connection is in no room's subscriber set.
C4_OutOfRooms ==
  \A c \in Conns : status[c] = "closed" => \A r \in Rooms : c \notin rooms[r]

\* C4 (events): once a connection has disconnected, no user-joined and no
\* channel-messages event is produced on its behalf by a handler that was
\* suspended when it disconnected.
C4_NoEventAfterDisconnect ==
  \A e \in emitted :
    (e.ev \in {"user-joined", "channel-messages"} /\ e.to # {})
      => status[e.from] # "closed"

\* C5: when a connection disconnects, each connection that remains in a
\* channel room it was in gets exactly one user-left notice carrying the id of
\* the identity the connection authenticated as, no other connection gets
\* one, and a connection that was in no channel room produces no notice.
C5_UserLeft ==
  [][\A c \in Conns :
       (status[c] = "open" /\ status'[c] = "closed") =>
          IF ChannelRoomsOf(c) = {}
          THEN emitted' = {}
          ELSE /\ Cardinality(emitted') = 1
               /\ \A e \in emitted' :
                    /\ e.ev = "user-left"
                    /\ e.text = UserOf[c]
                    /\ \E ch \in ChannelRoomsOf(c) :
                         e.to = {d \in Conns \ {c} :
                                   status[d] = "open" /\ ch \in ChannelRoomsOf(d)}]_vars

\* C6: send-message of a connection that is in no channel emits the error
\* 'Not in a channel' to that connection and nothing else: no create is
\* issued, no row is written, no activity is touched, nothing is delivered.
C6_NotInChannel ==
  [][\A c \in Conns :
       (SendMessage(c) /\ currentChannel[c] = None) =>
          /\ emitted' = {Event("error", c, "", {c}, "Not in a channel", 0, None, <<>>)}
          /\ UNCHANGED <<handlers, messages, activity, inbox>>]_vars

\* a connection in no channel got the error while another one is in a channel
C6_Witness ==
  \E e \in emitted :
    /\ e.ev = "error" /\ e.text = "Not in a channel" /\ e.to = {e.from}
    /\ currentChannel[e.from] = None
    /\ \E d \in Open : currentChannel[d] # None

\* C7: when the create of a send-message fails the sender alone (when it is
\* still connected) gets an error and no new-message is delivered for the
\* request; a new-message is only ever broadcast for a message row that the
\* persistence layer has created.
C7_NoOptimisticFanOut ==
  /\ [](\A e \in emitted : e.ev = "new-message" => e.mid \in MessageIds)
  /\ [](\A c \in Conns : Received(c) \subseteq MessageIds)
  /\ [][\A h \in InFlight :
          (h.op = "send-message" /\ h.pc = "sm_create" /\ Returns(h)) =>
             /\ emitted' = {Event("error", h.conn, "sm_create", {h.conn} \cap Open,
                                  "Failed to send message", 0, None, <<>>)}
             /\ UNCHANGED inbox]_vars

\* the create of a connected sender with a peer in its room failed
C7_Witness ==
  \E e \in emitted :
    /\ e.ev = "error" /\ e.at = "sm_create" /\ e.to = {e.from}
    /\ \E d \in Open \ {e.from} :
         currentChannel[d] = currentChannel[e.from] /\ ChannelRoomsOf(d) # {}
    /\ \A c \in Conns : inbox[c] = <<>>

\* C8: a send-message request whose sender gets 'Failed to send message' has
\* had no new-message delivered to any connection.
C8_FailedNotBroadcast ==
  [][\A h \in InFlight :
       (/\ h.op = "send-message"
        /\ Returns(h)
        /\ \E e \in emitted' : e.ev = "error" /\ e.text = "Failed to send message")
         => \A c \in Conns : h.resId \notin Received(c)]_vars

\* C9: a connection that receives, through one room, two messages sent by
\* different connections receives them in the order in which the persistence
\* layer created them.
C9_CommitOrder ==
  \A c \in Conns : \A i, j \in 1..Len(inbox[c]) :
    (/\ i < j
     /\ inbox[c][i].chan = inbox[c][j].chan
     /\ inbox[c][i].from # inbox[c][j].from)
      => inbox[c][i].mid < inbox[c][j].mid

\* C10: the persisted reaction rows hold at most one row per
\* (authorId, messageId, emoji).
C10_UniqueReaction ==
  \A r1, r2 \in reactions :
    (r1.userId = r2.userId /\ r1.messageId = r2.messageId /\ r1.emoji = r2.emoji)
      => r1 = r2

\* the number of rows of rs for each (userId, messageId, emoji)
RowsPerTriple(rs) ==
  [t \in (Users \cup {Undefined}) \X MessageIds \X Emojis |->
     Cardinality({r \in rs : <<r.userId, r.messageId, r.emoji>> = t})]

\* mutations a and b are of the same (userId, messageId, emoji)
SameTriple(a, b) ==
  a.userId = b.userId /\ a.messageId = b.messageId /\ a.emoji = b.emoji

\* C11: add-reaction is its own inverse. Each add-reaction changes the number
\* of rows of its (userId, messageId, emoji) by exactly one, and two
\* add-reactions of one triple, each run with no other reaction mutation
\* between its lookup and its mutation and none between the two, leave the
\* reaction rows as they were before the first (row ids apart).
C11_SelfInverse ==
  /\ \A k \in 1..Len(toggles) :
        LET t == <<toggles[k].userId, toggles[k].messageId, toggles[k].emoji>>
            n == RowsPerTriple(toggles[k].before)[t]
            m == RowsPerTriple(toggles[k].after)[t]
        IN  m = n + 1 \/ n = m + 1
  /\ \A k \in 2..Len(toggles) :
        (toggles[k-1].solo /\ toggles[k].solo /\ SameTriple(toggles[k-1], toggles[k]))
          => RowsPerTriple(toggles[k].after) = RowsPerTriple(toggles[k-1].before)

\* the middleware of connection c, suspended
AuthOf(c) == {h \in InFlight : h.conn = c /\ h.op = "auth"}

\* C12: a connection is admitted only by the middleware step that found the
\* user row of a validated live session; a connection that was not admitted
\* (its handshake pending or refused) has no event handler running, is in no
\* room, has no scope, and is reached by no event but its own refusal.
C12_RejectedBeforeConnection ==
  /\ [](\A c \in Conns :
          status[c] \in {"new", "auth", "rejected"} =>
            /\ \A h \in InFlight : h.conn = c => h.op = "auth"
            /\ \A r \in Rooms : c \notin rooms[r]
            /\ currentServer[c] = None /\ currentChannel[c] = None
            /\ inbox[c] = <<>>
            /\ \A e \in emitted : c \in e.to => e.ev = "connect_error")
  /\ [][\A c \in Conns :
          (status[c] # "open" /\ status'[c] = "open") =>
             /\ token[c] = TokenOf[c]
             /\ sessions[token[c]] \in {"live", "used"}
             /\ \E h \in AuthOf(c) : h.pc = "auth_user" /\ h.ready /\ h.resId = 1]_vars

\* a connection was refused and stays out while the other one, admitted and
\* in a channel, broadcasts
C12_Witness ==
  \E c, d \in Conns :
    /\ status[c] = "rejected"
    /\ token[c] \in {NoToken, "forged", "stale", "expired"}
    /\ status[d] = "open" /\ currentChannel[d] # None
    /\ \E e \in emitted : e.ev = "user-typing" /\ e.from = d

C14_OwnMembership ==
  /\ \A c \in Conns :
       currentServer[c] # None => <<user[c].id, currentServer[c]>> \in Members
  /\ \A e \in emitted :
       (e.ev = "server-channels" /\ e.to # {})
         => <<user[e.from].id, e.text>> \in Members

\* handler h is at the lookup that decides its join, and the lookup finds no
\* row for it
Refused(h) ==
  \/ /\ h.op = "join-server" /\ h.pc = "js_member"
     /\ ~IsServerMember(SocketUserId(h.conn), h.arg)
  \/ /\ h.op = "join-channel" /\ h.pc = "jc_access"
     /\ ~HasChannelAccess(SocketUserId(h.conn), h.arg)

\* the reason of a refused join
RefusalOf(h) ==
  IF h.op = "join-server" THEN "Not a member of this server"
                          ELSE "Channel not found or access denied"

\* the generic failure of a join
FailureOf(h) ==
  IF h.op = "join-server" THEN "Failed to join server" ELSE "Failed to join channel"

\* handler h resumes in this step
Resumes(h) == CopiesIn(h, handlers') < CopiesIn(h, handlers)

\* C15: a join-server refused for non-membership and a join-channel refused
\* for a missing or inaccessible channel end there: they leave currentServer,
\* currentChannel and every room as they were, emit exactly one error, to the
\* requester (the refusal, unless the lookup itself threw), and deliver
\* nothing to anyone else.
C15_RefusedJoinFrame ==
  [][\A h \in InFlight :
       (Refused(h) /\ Resumes(h))
         => /\ Returns(h)
            /\ UNCHANGED <<currentServer, currentChannel, rooms, inbox>>
            /\ \E text \in {RefusalOf(h), FailureOf(h)} :
                  emitted' = {Event("error", h.conn, h.pc, {h.conn} \cap Open,
                                    text, 0, None, <<>>)}]_vars

\* a connection that shares a channel with the other one was refused a
\* channel that does not exist, and stays where it was
C15_Witness ==
  \E e \in emitted :
    /\ e.ev = "error" /\ e.text = "Channel not found or access denied"
    /\ e.to = {e.from}
    /\ currentChannel[e.from] = "chA"
    /\ rooms[ChannelRoom("chA")] = Conns

\* the scope of connection c: its server, its channel and the rooms it is in
Scope(c) ==
  [server |-> currentServer[c], channel |-> currentChannel[c],
   rooms |-> {r \in Rooms : c \in rooms[r]}]

\* the scope of a connection that has joined nothing
NoScope == [server |-> None, channel |-> None, rooms |-> {}]

\* C16: when a join-server or join-channel ends with its generic failure
\* ('Failed to join server' / 'Failed to join channel'), the currentServer,
\* the currentChannel and the room memberships of the connection are what they
\* were before the request; stated for the first request the gateway gets,
\* before which no connection has a scope.
C16_FailedJoinNotApplied ==
  \A e \in emitted :
    (/\ issued = 1
     /\ e.ev = "error"
     /\ e.text \in {"Failed to join server", "Failed to join channel"})
      => Scope(e.from) = NoScope

\* the last n elements of sequence q (all of them when it has fewer)
LastOf(q, n) == IF Len(q) <= n THEN q ELSE SubSeq(q, Len(q) - n + 1, Len(q))

\* C17: a join-channel that succeeds gives the joiner exactly one
\* channel-messages event, and its list is the min(50, n) most recently
\* created messages of the channel, oldest first.
C17_History ==
  /\ [](\A e \in emitted :
          e.ev = "channel-messages" =>
            /\ e.list = LastOf(SelectIds(messages, e.chan), HistoryLimit)
            /\ e.to = {e.from} \cap Open)
  /\ [][\A h \in InFlight :
          (/\ h.op = "join-channel" /\ h.pc = "jc_history"
           /\ Returns(h)
           /\ ~ \E e \in emitted' : e.ev = "error")
            => Cardinality({e \in emitted' : /\ e.ev = "channel-messages"
                                              /\ e.from = h.conn
                                              /\ e.chan = h.arg}) = 1]_vars

\* the joiner of a channel with more than 50 messages got the 50 newest,
\* the first of which is not the oldest of the channel
C17_Witness ==
  \E e \in emitted :
    /\ e.ev = "channel-messages" /\ e.to = {e.from}
    /\ Len(SelectIds(messages, e.chan)) > HistoryLimit
    /\ Len(e.list) = HistoryLimit
    /\ e.list[1] # SelectIds(messages, e.chan)[1]
    /\ e.list[HistoryLimit] = Len(messages)

\* the admitted connections other than c whose channel is ch
OthersIn(ch, c) ==
  {d \in Conns \ {c} : status[d] = "open" /\ currentChannel[d] = ch}

\* C18: a join-channel to X that succeeds produces exactly one user-joined
\* notice, received by every other connection subscribed to X when the notice
\* is sent, and by no one else: not the joiner, not a connection outside X.
C18_UserJoined ==
  [][\A h \in InFlight :
       (/\ h.op = "join-channel" /\ h.pc = "jc_history"
        /\ Returns(h)
        /\ ~ \E e \in emitted' : e.ev = "error")
         => /\ Cardinality({e \in emitted' : e.ev = "user-joined"}) = 1
            /\ \A e \in emitted' :
                 e.ev = "user-joined" =>
                   /\ e.from = h.conn /\ e.chan = h.arg
                   /\ e.to = OthersIn(h.arg, h.conn)]_vars

\* the other subscriber of the channel got the notice of a join while the
\* joiner did not
C18_Witness ==
  \E e \in emitted :
    /\ e.ev = "user-joined"
    /\ e.to = Conns \ {e.from}
    /\ currentChannel[e.from] = e.chan
    /\ \A d \in e.to : currentChannel[d] = e.chan

\* C19: a join-channel of the channel the connection is subscribed to leaves
\* every room and currentChannel as they were, and still delivers
\* channel-messages to the requester and a user-joined notice to the other
\* subscribers.
C19_RejoinIdempotent ==
  [][\A h \in InFlight :
       (/\ h.op = "join-channel"
        /\ Resumes(h)
        /\ status[h.conn] = "open"
        /\ currentChannel[h.conn] = h.arg)
         => /\ UNCHANGED <<rooms, currentChannel>>
            /\ (Returns(h) /\ ~ \E e \in emitted' : e.ev = "error")
                 => /\ \E e \in emitted' : /\ e.ev = "channel-messages"
                                            /\ e.to = {h.conn}
                    /\ \E e \in emitted' : /\ e.ev = "user-joined"
                                            /\ e.to = OthersIn(h.arg, h.conn)]_vars

\* the only request so far was a join-channel of chA by a connection that
\* was in chA: it got the history, the other subscriber the notice, and the
\* room is as it was
C19_Witness ==
  /\ issued = 1
  /\ rooms[ChannelRoom("chA")] = Conns
  /\ \E e \in emitted : e.ev = "channel-messages" /\ e.chan = "chA" /\ e.to = {e.from}
  /\ \E e \in emitted : e.ev = "user-joined" /\ e.chan = "chA"
                         /\ e.to = Conns \ {e.from}

\* the typing events of this step
TypingEvents == {e \in emitted' : e.ev \in {"user-typing", "user-stop-typing"}}

\* C20: typing-start and typing-stop of a connection whose channel is R
\* deliver one user-typing / user-stop-typing to every other subscriber of R
\* and to no one else; of a connection with no channel they deliver nothing
\* and emit no error; and they change no scope, no room and no stored row.
C20_Typing ==
  [][\A c \in Conns : \A ev \in {"user-typing", "user-stop-typing"} :
       Typing(c, ev) =>
         /\ UNCHANGED <<currentServer, currentChannel, rooms, messages, activity,
                        reactions, sessions, inbox>>
         /\ emitted' = TypingEvents
         /\ IF currentChannel[c] = None
            THEN emitted' = {}
            ELSE /\ Cardinality(emitted') = 1
                 /\ \A e \in emitted' :
                      /\ e.ev = ev /\ e.from = c
                      /\ e.to = OthersIn(currentChannel[c], c)]_vars

\* the other subscriber of the channel was told that a connection stopped
\* typing
C20_Witness ==
  \E e \in emitted :
    /\ e.ev = "user-stop-typing"
    /\ e.to = Conns \ {e.from}
    /\ \A d \in Conns : status[d] = "open" /\ currentChannel[d] = e.chan

\* add-reaction requests of connections that stay connected
NextUpdate ==
  \/ \E c \in Conns : Connect(c)
  \/ \E c \in Conns, m \in MessageIds, e \in Emojis : AddReaction(c, m, e)
  \/ \E h \in InFlight : DbExec(h)
  \/ \E h \in InFlight, fail \in BOOLEAN : ResumeReactionLookup(h, fail)
  \/ \E h \in InFlight, fail \in BOOLEAN : ResumeReactionMutation(h, fail)
  \/ \E h \in InFlight, fail \in BOOLEAN : ResumeReactionList(h, fail)

SpecUpdate == InitReact /\ [][NextUpdate]_vars

\* the reaction rows of message m after the k-th mutation
ReactionsAfter(k, m) == {r \in toggles[k].after : r.messageId = m}

\* C21: an add-reaction that succeeds emits one message-reactions-updated
\* with its messageId and the reaction list of the message as it was after
\* the mutation of the request, to every admitted connection, whatever room
\* it is in.
C21_ReactionsToAll ==
  [][\A h \in InFlight :
       (/\ h.op = "add-reaction" /\ h.pc = "ar_list"
        /\ Returns(h)
        /\ ~ \E e \in emitted' : e.ev = "error")
         => /\ Cardinality(emitted') = 1
            /\ \A e \in emitted' :
                 /\ e.ev = "message-reactions-updated"
                 /\ e.mid = h.mid
                 /\ e.to = {c \in Conns : status[c] = "open"}
                 /\ \E k \in h.seen..Len(toggles) :
                      e.list = IdsOf(ReactionsAfter(k, h.mid))]_vars

\* both connections, neither in a room, got the list with the row an
\* add-reaction created
C21_Witness ==
  \E e \in emitted :
    /\ e.ev = "message-reactions-updated"
    /\ e.to = Conns
    /\ \A c \in Conns : currentChannel[c] = None
    /\ e.list # <<>>
    /\ \A r \in Rooms : rooms[r] = {}

\* the query handler h awaits throws in this step
Throws(h) == Returns(h) /\ ~h.ready

\* C22: when the lookup, the create, the delete or the list query of an
\* add-reaction throws, the step emits one error, to the requester alone,
\* and no message-reactions-updated.
C22_FailedReaction ==
  [][\A h \in InFlight :
       (h.op = "add-reaction" /\ Throws(h))
         => /\ emitted' = {ErrorTo(h.conn, h.pc, "Failed to add reaction")}
            /\ \A e \in emitted' : e.ev = "error" /\ e.to = {h.conn}]_vars

\* the list query threw after the row was created: the requester alone got
\* the error while the other connection was admitted
C22_Witness ==
  /\ \A c \in Conns : status[c] = "open"
  /\ reactions # {}
  /\ \E e \in emitted : e.ev = "error" /\ e.at = "ar_list" /\ e.to = {e.from}

\* a stored message in chB, a channel of the server only u1 is a member of
InitForeign == InitWith(MessageCreate(<<>>, "u1", "chB"), [c \in Conns |-> None])

SpecForeign == InitForeign /\ [][NextUpdate]_vars

\* the channel of the stored message m
ChannelOfMessage(m) == messages[CHOOSE k \in 1..Len(messages) : messages[k].id = m].channelId

\* C23: a new-message or a message-reactions-updated is emitted only for a
\* request of an identity that is a member of the server owning the channel
\* of the message.
C23_MembersOnly ==
  \A e \in emitted :
    /\ e.ev = "message-reactions-updated"
         => <<user[e.from].id, ServerOf[ChannelOfMessage(e.mid)]>> \in Members
    /\ e.ev = "new-message" => <<user[e.from].id, ServerOf[e.chan]>> \in Members

\* a stored message in chA, with c2 admitted and subscribed to chA
InitWatched ==
  InitWith(MessageCreate(<<>>, "u2", "chA"), [c \in Conns |-> IF c = "c2" THEN "chA" ELSE None])

\* every request of connection c1, which stays connected
NextRequests ==
  \/ Connect("c1")
  \/ \E s \in Servers \cup {NoSuchServer} : JoinServer("c1", s)
  \/ \E ch \in Channels \cup {NoSuchChannel} : JoinChannel("c1", ch)
  \/ SendMessage("c1")
  \/ \E m \in MessageIds, e \in Emojis : AddReaction("c1", m, e)
  \/ \E h \in InFlight : DbExec(h)
  \/ \E h \in InFlight, fail \in BOOLEAN : ResumeJoinServerMember(h, fail)
  \/ \E h \in InFlight, fail \in BOOLEAN : ResumeJoinServerChannels(h, fail)
  \/ \E h \in InFlight, fail \in BOOLEAN : ResumeJoinChannelAccess(h, fail)
  \/ \E h \in InFlight, fail \in BOOLEAN : ResumeJoinChannelHistory(h, fail)
  \/ \E h \in InFlight, fail \in BOOLEAN : ResumeSendCreate(h, fail)
  \/ \E h \in InFlight, fail \in BOOLEAN : ResumeSendTouch(h, fail)
  \/ \E h \in InFlight, fail \in BOOLEAN : ResumeReactionLookup(h, fail)
  \/ \E h \in InFlight, fail \in BOOLEAN : ResumeReactionMutation(h, fail)
  \/ \E h \in InFlight, fail \in BOOLEAN : ResumeReactionList(h, fail)

SpecRequests == InitWatched /\ [][NextRequests]_vars

\* the reasons an error event carries
ErrorReasons ==
  {"Not a member of this server", "Failed to join server",
   "Channel not found or access denied", "Failed to join channel",
   "Not in a channel", "Failed to send message", "Failed to add reaction"}

\* C24: an error event reaches the connection whose request failed and no
\* other, and its payload is one of seven literal reasons.
C24_ErrorToIssuer ==
  \A e \in emitted : e.ev = "error" => e.to = {e.from} /\ e.text \in ErrorReasons

\* the send of c1 failed while c2 was in the room of c1's channel, and only
\* c1 got the error
C24_Witness ==
  \E e \in emitted :
    /\ e.ev = "error" /\ e.text = "Failed to send message"
    /\ e.to = {"c1"}
    /\ currentChannel["c1"] # None
    /\ "c2" \in rooms[ChannelRoom(currentChannel["c1"])]

\* the failures that are reported before the handler changed the scope of
\* its connection, or by a handler that never changes it
FrameReasons ==
  {"Not a member of this server", "Channel not found or access denied",
   "Not in a channel", "Failed to send message", "Failed to add reaction"}

MessageUser(m) ==
  IF m \in DOMAIN messages /\ messages[m].userId \in Users
  THEN FullUser(messages[m].userId) ELSE NoUser

\* socket.user.isAnonymous ? socket.user.anonymousId : socket.user.username
DisplayName(su) == IF Field(su, "isAnonymous") = TRUE THEN su.anonymousId ELSE su.username

\* the usernames the payload of event e carries: the user.username of the
\* message rows of channel-messages and new-message, the username of
\* user-joined and user-typing
Usernames(e) ==
  CASE e.ev = "channel-messages" ->
         {MessageUser(e.list[k]).username : k \in 1..Len(e.list)}
    [] e.ev = "new-message" -> {MessageUser(e.mid).username}
    [] e.ev \in {"user-joined", "user-typing"} -> {DisplayName(user[e.from])}
    [] OTHER -> {}

\* C26: no event delivered to a connection carries the real username of an
\* anonymous identity other than the connection's own.
C26_NoRealUsername ==
  \A e \in emitted : \A c \in e.to : \A u \in Users :
    (IsAnonymous[u] /\ user[c].id # u) => FullUser(u).username \notin Usernames(e)

\* C27: a connection receives a new-message only through the room of the
\* channel the message row was created in, and the handler touches the
\* activity of that same channel.
C27_PersistedChannel ==
  /\ \A c \in Conns : \A i \in DOMAIN inbox[c] :
       inbox[c][i].mid \in DOMAIN messages
         => inbox[c][i].chan = messages[inbox[c][i].mid].channelId
  /\ \A h \in InFlight :
       (h.op = "send-message" /\ h.pc = "sm_touch" /\ h.resId \in DOMAIN messages)
         => h.arg = messages[h.resId].channelId

\* the message ids of the history a channel-messages event carries
HistoryOf(e) == {e.list[k] : k \in 1..Len(e.list)}

\* C28: a connection that was just delivered the history of its join does
\* not receive, in the next step of the gateway, a new-message of another
\* connection for a message of that history.
C28_NoDuplicate ==
  [][\A e \in emitted : \A f \in emitted' :
       (e.ev = "channel-messages" /\ f.ev = "new-message" /\ e.from # f.from)
         => \A c \in e.to \cap f.to : f.mid \notin HistoryOf(e)]_vars

\* c2 is admitted and subscribed to chA
InitSender == InitWith(<<>>, [c \in Conns |-> IF c = "c2" THEN "chA" ELSE None])

\* c1 joins chA while c2, which stays in chA, sends messages
NextCatchUp ==
  \/ Connect("c1")
  \/ JoinChannel("c1", "chA")
  \/ SendMessage("c2")
  \/ \E h \in InFlight : DbExec(h)
  \/ \E h \in InFlight, fail \in BOOLEAN : ResumeJoinChannelAccess(h, fail)
  \/ \E h \in InFlight, fail \in BOOLEAN : ResumeJoinChannelHistory(h, fail)
  \/ \E h \in InFlight, fail \in BOOLEAN : ResumeSendCreate(h, fail)
  \/ \E h \in InFlight, fail \in BOOLEAN : ResumeSendTouch(h, fail)

SpecCatchUp == InitSender /\ [][NextCatchUp]_vars

\* the messages connection c received as new-message
NewMessagesOf(c) == {inbox[c][i].mid : i \in DOMAIN inbox[c]}

\* the stored messages whose broadcast is still to come: the create has run
\* and its handler has not resumed
AwaitingBroadcast ==
  {h.resId : h \in {g \in InFlight : g.op = "send-message" /\ g.pc = "sm_create" /\ g.ready}}

\* C29: a joiner is in the room of the channel while its history is fetched;
\* when the history of its join is delivered, every message stored in the
\* channel is in that history, or was delivered to it as new-message, or is
\* still to be broadcast; and every new-message broadcast to the room of the
\* channel is delivered to every connection subscribed to it.
C29_NoMissedMessage ==
  /\ [](\A h \in InFlight :
          (h.op = "join-channel" /\ h.pc = "jc_history" /\ currentChannel[h.conn] = h.arg)
            => h.conn \in rooms[ChannelRoom(h.arg)])
  /\ [][\A e \in emitted' :
          (e.ev = "channel-messages" /\ e.to # {} /\ currentChannel[e.from] = e.chan)
            => \A k \in DOMAIN messages :
                 messages[k].channelId = e.chan
                   => \/ k \in HistoryOf(e)
                      \/ k \in NewMessagesOf(e.from)
                      \/ k \in AwaitingBroadcast]_vars
  /\ [][\A f \in emitted' :
          f.ev = "new-message"
            => \A c \in Open : currentChannel[c] = f.chan /\ c \in rooms[ChannelRoom(f.chan)]
                 => /\ Len(inbox'[c]) = Len(inbox[c]) + 1
                    /\ inbox'[c][Len(inbox'[c])].mid = f.mid]_vars

\* the history delivered to c1 holds a message stored before its fetch, c1
\* already has a new-message broadcast after it joined the room, and another
\* stored message is still to be broadcast
C29_Witness ==
  /\ \E e \in emitted : e.ev = "channel-messages" /\ e.to = {"c1"} /\ e.list # <<>>
  /\ NewMessagesOf("c1") # {}
  /\ AwaitingBroadcast # {}

\* new Set(prev).add(username)
SetAdd(set, x) == IF \E k \in 1..Len(set) : set[k] = x THEN set ELSE Append(set, x)

\* newSet.delete(x)
SetDelete(set, x) == SelectSeq(set, LAMBDA y : y # x)

\* for (const user of newSet) { if (user !== userId) { newSet.delete(user); break; } }
DeleteFirstOther(set, userId) ==
  IF \E k \in 1..Len(set) : set[k] # userId
  THEN SetDelete(set, set[CHOOSE k \in 1..Len(set) :
                            set[k] # userId /\ \A j \in 1..(k - 1) : set[j] = userId])
  ELSE set

\* the client takes event e, emitted to the room of chA, from its socket
Receive(e) ==
  /\ e \in emitted
  /\ e.chan = "chA"
  /\ emitted' = emitted \ {e}
  /\ UNCHANGED <<auth, status, currentServer, currentChannel, rooms, issued, handlers,
                 messages, activity, reactions, nextReactionId, toggles, inbox>>

\* socketService.onUserTyping(({ username }) => ...)
OnUserTyping(e) ==
  /\ e.ev = "user-typing"
  /\ Receive(e)
  /\ typingUsers' = SetAdd(typingUsers, DisplayName(user[e.from]))

\* socketService.onUserStopTyping(({ userId }) => ...)
OnUserStopTyping(e) ==
  /\ e.ev = "user-stop-typing"
  /\ Receive(e)
  /\ typingUsers' = DeleteFirstOther(typingUsers, e.text)

\* the typing indicators of two connections that start in chA and may
\* change channel, as the client of a further member of chA handles them
NextClient ==
  \/ \E c \in Conns : TypingStart(c)
  \/ \E c \in Conns : TypingStop(c)
  \/ \E e \in emitted : OnUserTyping(e)
  \/ \E e \in emitted : OnUserStopTyping(e)
  \/ \E c \in Conns, ch \in Channels : JoinChannel(c, ch)
  \/ \E h \in InFlight : DbExec(h)
  \/ \E h \in InFlight, fail \in BOOLEAN : ResumeJoinChannelAccess(h, fail)
  \/ \E h \in InFlight, fail \in BOOLEAN : ResumeJoinChannelHistory(h, fail)

SpecClient == InitJoined /\ [][NextClient]_vars

\* C30: when the client handles the user-stop-typing of a user, its
\* typingUsers loses the entry the user-typing of that user added and keeps
\* every other entry.
C30_StopTyping ==
  [][\A e \in emitted :
       (e.ev = "user-stop-typing" /\ issued' = issued /\ emitted' = emitted \ {e})
         => typingUsers' = SetDelete(typingUsers, DisplayName(user[e.from]))]_vars

====
